---- MODULE Spec2Model ----
(***************************************************************************)
(* Sandbox container registry and lifecycle reconciliation:                *)
(*   - the prune policy        (src/src/agents/sandbox/prune.ts)           *)
(*   - the rate-limited prune  (src/src/agents/sandbox/prune.ts)           *)
(*   - the registry listing    (src/unnamed/part_000, lines 653-698)       *)
(* The registry store (registry.js) and the docker adapter (docker.js) are *)
(* imported by these files; their behaviour is taken from their contract.  *)
(***************************************************************************)
EXTENDS Integers, Sequences, FiniteSets, TLC

VARIABLES
    clock,          \* the value Date.now() returns at this moment (ms)
    lastPruneAtMs,  \* prune.ts:6, module-level rate-limit timestamp
    registry,       \* the registry store: sequence of entries, in read order
    docker,         \* the container runtime: name -> [exists, running, image]
    pass,           \* one record per maybePruneSandboxes call site (caller)
    pIn,            \* inputs of one shouldPruneSandboxEntry evaluation
    pOut,           \* its result: [done, value], done = FALSE before the evaluation
    list,           \* one listSandboxContainers call
    cmd,            \* one run of the list or the recreate command (sandbox.ts)
    ens             \* one ensureDockerContainerIsRunning call

vars == <<clock, lastPruneAtMs, registry, docker, pass, pIn, pOut, list, cmd, ens>>

pruneVars  == <<clock, lastPruneAtMs, registry, docker, pass>>
policyVars == <<pIn, pOut>>
listVars   == <<list>>
cmdVars    == <<cmd>>
ensureVars == <<ens>>

----------------------------------------------------------------------------
(* Bounds of the model *)

MaxWindows   == 1   \* the clock runs over this many 5-minute windows
MaxIdleHours == 2   \* prune.idleHours ranges over 0..MaxIdleHours
MaxAgeDays   == 2   \* prune.maxAgeDays ranges over 0..MaxAgeDays

\* Two call sites that trigger maybePruneSandboxes concurrently.
Callers == {"a", "b"}

----------------------------------------------------------------------------
(* Prune policy: prune.ts lines 13-25 *)

\* prune.ts:22  idleHours * 60 * 60 * 1000
IdleLimitMs(idleHours) == idleHours * 60 * 60 * 1000

\* prune.ts:23  maxAgeDays * 24 * 60 * 60 * 1000
AgeLimitMs(maxAgeDays) == maxAgeDays * 24 * 60 * 60 * 1000

\* Faulty variant: the two rules joined by "and" instead of "or".
shouldPruneBothRules(c, t, entry) ==
    IF c.idleHours = 0 /\ c.maxAgeDays = 0
    THEN FALSE
    ELSE /\ (c.idleHours > 0 /\ t - entry.lastUsedAtMs > IdleLimitMs(c.idleHours))
         /\ (c.maxAgeDays > 0 /\ t - entry.createdAtMs > AgeLimitMs(c.maxAgeDays))

\* Faulty variant: non-strict thresholds (>= instead of >).
shouldPruneNonStrict(c, t, entry) ==
    IF c.idleHours = 0 /\ c.maxAgeDays = 0
    THEN FALSE
    ELSE \/ (c.idleHours > 0 /\ t - entry.lastUsedAtMs >= IdleLimitMs(c.idleHours))
         \/ (c.maxAgeDays > 0 /\ t - entry.createdAtMs >= AgeLimitMs(c.maxAgeDays))

shouldPruneSandboxEntry(c, t, entry) ==
    IF c.idleHours = 0 /\ c.maxAgeDays = 0
    THEN FALSE
    ELSE LET idleMs == t - entry.lastUsedAtMs
             ageMs  == t - entry.createdAtMs
         IN  \/ (c.idleHours > 0 /\ idleMs > IdleLimitMs(c.idleHours))
             \/ (c.maxAgeDays > 0 /\ ageMs > AgeLimitMs(c.maxAgeDays))

----------------------------------------------------------------------------
(* The registry used by the prune and listing specifications *)

Names == {"c1", "c2", "c3"}

\* Time of process start; late enough for entries older than a day.
StartMs == 3 * 24 * 60 * 60 * 1000

\* prune.ts:65  5 * 60 * 1000
PruneIntervalMs == 5 * 60 * 1000

Entry(name, img, key, created, used) ==
    [containerName |-> name, image |-> img, sessionKey |-> key,
     createdAtMs |-> created, lastUsedAtMs |-> used]

\* c1: idle for two hours.  c2: older than a day, just used.
\* c3: exactly one hour idle one millisecond before the first window ends.
InitialRegistry ==
    << Entry("c1", "img:1", "agent:a:1",
             StartMs - 2 * 60 * 60 * 1000, StartMs - 2 * 60 * 60 * 1000),
       Entry("c2", "img:1", "agent:b",
             StartMs - 24 * 60 * 60 * 1000 - 1, StartMs),
       Entry("c3", "img:2", "main",
             StartMs - 60 * 60 * 1000, StartMs + PruneIntervalMs - 1 - 60 * 60 * 1000) >>

InitialDocker ==
    [n \in Names |->
        CASE n = "c1" -> [exists |-> TRUE,  running |-> TRUE,  image |-> "img:1"]
          [] n = "c2" -> [exists |-> TRUE,  running |-> FALSE, image |-> "img:2"]
          [] OTHER    -> [exists |-> FALSE, running |-> FALSE, image |-> "img:2"]]

Absent == [exists |-> FALSE, running |-> FALSE, image |-> ""]

RECURSIVE SeqNames(_)
SeqNames(s) == IF s = <<>> THEN {} ELSE {Head(s).containerName} \cup SeqNames(Tail(s))

RegNames == SeqNames(registry)

\* registry.js removeRegistryEntry: drop the entry of that name, keep the order;
\* removing a name that is not there changes nothing.
RECURSIVE WithoutEntry(_, _)
WithoutEntry(s, name) ==
    IF s = <<>> THEN <<>>
    ELSE IF Head(s).containerName = name
         THEN WithoutEntry(Tail(s), name)
         ELSE <<Head(s)>> \o WithoutEntry(Tail(s), name)

\* Values a failing registry.js / docker.js call can throw.
ErrorValues ==
    { [kind |-> "Error",     text |-> "EACCES"],
      [kind |-> "string",    text |-> "boom"],
      [kind |-> "undefined", text |-> ""] }

----------------------------------------------------------------------------
(* Policy specification: one evaluation of shouldPruneSandboxEntry *)

PolicyNow == (MaxAgeDays + 2) * 24 * 60 * 60 * 1000

\* Timestamps at, one millisecond before and one millisecond after every
\* threshold boundary.
IdleStamps == { PolicyNow - IdleLimitMs(h) + d : h \in 0 .. MaxIdleHours, d \in {-1, 0, 1} }
AgeStamps  == { PolicyNow - AgeLimitMs(a) + d : a \in 0 .. MaxAgeDays, d \in {-1, 0, 1} }

PolicyInputs ==
    [ cfg   : [idleHours : 0 .. MaxIdleHours, maxAgeDays : 0 .. MaxAgeDays],
      now   : {PolicyNow},
      entry : [containerName : {"c1"}, createdAtMs : AgeStamps, lastUsedAtMs : IdleStamps] ]

NoInput == [cfg |-> [idleHours |-> 0, maxAgeDays |-> 0], now |-> 0,
            entry |-> [containerName |-> "c1", createdAtMs |-> 0, lastUsedAtMs |-> 0]]

NoOutput == [done |-> FALSE, value |-> FALSE]

Evaluate ==
    /\ ~pOut.done
    /\ pOut' = [done |-> TRUE,
                value |-> shouldPruneSandboxEntry(pIn.cfg, pIn.now, pIn.entry)]
    /\ UNCHANGED <<pIn, pruneVars, listVars, cmdVars, ensureVars>>

----------------------------------------------------------------------------
(* Rate-limited prune: prune.ts lines 27-80 *)

\* Thresholds a caller may pass to maybePruneSandboxes.
PruneCfgs == [idleHours : {0, 1}, maxAgeDays : {0, 1}]

\* Times the clock takes: process start, the last millisecond of the first
\* 5-minute window, and the end of every window.
ClockValues ==
    { StartMs + a * PruneIntervalMs : a \in 0 .. MaxWindows }
        \cup { StartMs + PruneIntervalMs - 1 }

IdlePass ==
    [ pc       |-> "idle",    \* idle, read, docker, remove, done
      cfg      |-> [idleHours |-> 0, maxAgeDays |-> 0],
      now      |-> 0,         \* Date.now() of the call (lines 64 and 33)
      lastSeen |-> 0,         \* lastPruneAtMs as the check at line 65 read it
      passed   |-> FALSE,     \* the call got past line 67
      reads    |-> 0,         \* invocations of params.read
      snapshot |-> <<>>,      \* registry.entries as read at line 37
      idx      |-> 0,         \* position of the loop of line 38
      rm       |-> [n \in Names |-> "none"],  \* outcome of execDocker rm per name
      removed  |-> {},        \* names this pass removed from the registry
      stale    |-> {},        \* those whose registry entry had changed since the read
      result   |-> "none",    \* returned / threw: how the call ended
      error    |-> "none",    \* kind of the error the pass raised, if any
      logged   |-> <<>> ]     \* line written through defaultRuntime.error

\* Faulty variant: the window taken in seconds (5 * 60) instead of milliseconds.
RateLimitedSeconds(t, last) == t - last < 5 * 60

\* prune.ts:65
RateLimited(t, last) == t - last < PruneIntervalMs

\* Faulty variant: the `return` of line 66 is missing, the call goes on to the pass.
RateLimitedFallsThrough(rec) == [rec EXCEPT !.pc = "read", !.reads = @ + 1]

\* prune.ts:65-67: a rate-limited call returns at once.
RateLimitedReturn(rec) == [rec EXCEPT !.pc = "done", !.result = "returned"]

\* Faulty variant: the timestamp is not written before the pass starts.
StampNotWritten(t, last) == last

\* Faulty variant: only the first pass of the process writes the timestamp.
StampFirstPassOnly(t, last) == IF last = 0 THEN t ELSE last

\* prune.ts:68  lastPruneAtMs = now
StampBeforeWork(t, last) == t

\* Faulty variant: the short-circuit of line 34 is missing.
ThresholdsNeverZero(c) == FALSE

\* prune.ts:34
ThresholdsBothZero(c) == c.idleHours = 0 /\ c.maxAgeDays = 0

\* prune.ts:72-78: the message logged for a caught error. JSON.stringify of
\* undefined is undefined, which ?? replaces by "unknown error".
ErrorMessage(err) ==
    CASE err.kind = "Error"  -> err.text
      [] err.kind = "string" -> err.text
      [] OTHER               -> "unknown error"

\* Faulty variant: the handler logs and rethrows.
CaughtRethrown(rec, err) ==
    [rec EXCEPT !.pc = "done", !.result = "threw", !.error = err.kind,
                !.logged = <<"Sandbox prune failed: ", ErrorMessage(err)>>]

\* prune.ts:69-79: the try/catch around the pass.
Caught(rec, err) ==
    [rec EXCEPT !.pc = "done", !.result = "returned", !.error = err.kind,
                !.logged = <<"Sandbox prune failed: ", ErrorMessage(err)>>]

\* prune.ts:38-41: index of the first entry at or after `from` that
\* shouldPruneSandboxEntry selects, Len + 1 when there is none.
RECURSIVE NextSelected(_, _, _, _)
NextSelected(c, t, entries, from) ==
    IF from > Len(entries) THEN from
    ELSE IF shouldPruneSandboxEntry(c, t, entries[from]) THEN from
         ELSE NextSelected(c, t, entries, from + 1)

\* Faulty variant: Date.now() is taken again at every entry of the loop.
LoopFromCurrentTime(rec, from) ==
    LET i == NextSelected(rec.cfg, clock, rec.snapshot, from)
    IN  IF i > Len(rec.snapshot)
        THEN [rec EXCEPT !.pc = "done", !.result = "returned", !.idx = i]
        ELSE [rec EXCEPT !.pc = "docker", !.idx = i]

\* Faulty variant: the `continue` of line 40 is missing, every entry is removed.
LoopFromAll(rec, from) ==
    IF from > Len(rec.snapshot)
    THEN [rec EXCEPT !.pc = "done", !.result = "returned", !.idx = from]
    ELSE [rec EXCEPT !.pc = "docker", !.idx = from]

\* prune.ts:38-45: the loop runs on to the next execDocker call, or ends the
\* pass, which ends the call (lines 55-61, 70).
LoopFrom(rec, from) ==
    LET i == NextSelected(rec.cfg, rec.now, rec.snapshot, from)
    IN  IF i > Len(rec.snapshot)
        THEN [rec EXCEPT !.pc = "done", !.result = "returned", !.idx = i]
        ELSE [rec EXCEPT !.pc = "docker", !.idx = i]

\* Faulty variant: the registry removal sits inside the try, after execDocker.
AfterExecDockerInTry(rec, outcome) ==
    IF outcome = "raised" THEN LoopFrom(rec, rec.idx + 1)
    ELSE [rec EXCEPT !.pc = "remove"]

\* prune.ts:46-49: catch swallows, finally calls params.remove.
AfterExecDocker(rec, outcome) == [rec EXCEPT !.pc = "remove"]

\* The entry of that name in the registry is no longer the one that was read.
Changed(snapshot, name) ==
    \E i \in 1 .. Len(snapshot) :
        /\ snapshot[i].containerName = name
        /\ \E j \in 1 .. Len(registry) :
              registry[j].containerName = name /\ registry[j] # snapshot[i]

\* prune.ts:63-68 and 33-37: one synchronous run from the call to the first
\* await (params.read()).
Trigger(p, c) ==
    /\ pass[p].pc = "idle"
    /\ LET t     == clock
           start == [pass[p] EXCEPT !.cfg = c, !.now = t, !.lastSeen = lastPruneAtMs]
       IN  IF RateLimited(t, lastPruneAtMs)
           THEN /\ pass' = [pass EXCEPT ![p] = RateLimitedReturn(start)]
                /\ UNCHANGED lastPruneAtMs
           ELSE /\ lastPruneAtMs' = StampBeforeWork(t, lastPruneAtMs)
                /\ pass' = [pass EXCEPT ![p] =
                        IF ThresholdsBothZero(c)
                        THEN [start EXCEPT !.passed = TRUE, !.pc = "done",
                                           !.result = "returned"]
                        ELSE [start EXCEPT !.passed = TRUE, !.pc = "read",
                                           !.reads = @ + 1]]
    /\ UNCHANGED <<clock, registry, docker, policyVars, listVars, cmdVars, ensureVars>>

\* prune.ts:37: params.read() resolves with the entries, or rejects.
ReadRegistry(p) ==
    /\ pass[p].pc = "read"
    /\ \/ pass' = [pass EXCEPT ![p] = LoopFrom([@ EXCEPT !.snapshot = registry], 1)]
       \/ \E err \in ErrorValues : pass' = [pass EXCEPT ![p] = Caught(@, err)]
    /\ UNCHANGED <<clock, lastPruneAtMs, registry, docker, policyVars, listVars, cmdVars, ensureVars>>

\* prune.ts:43-45: execDocker(["rm", "-f", name], {allowFailure: true}) removes
\* the container (ok), exits non-zero (failed) or rejects (raised).
DockerRm(p) ==
    /\ pass[p].pc = "docker"
    /\ LET name == pass[p].snapshot[pass[p].idx].containerName
       IN  \E outcome \in {"ok", "failed", "raised"} :
             /\ docker' = IF outcome = "ok" THEN [docker EXCEPT ![name] = Absent]
                          ELSE docker
             /\ pass' = [pass EXCEPT ![p] =
                            AfterExecDocker([@ EXCEPT !.rm[name] = outcome], outcome)]
    /\ UNCHANGED <<clock, lastPruneAtMs, registry, policyVars, listVars, cmdVars, ensureVars>>

\* prune.ts:49-50: params.remove(name) resolves, or rejects and ends the loop;
\* onRemoved is not passed (lines 56-60).
RegRemove(p) ==
    /\ pass[p].pc = "remove"
    /\ LET name == pass[p].snapshot[pass[p].idx].containerName
       IN  \/ /\ registry' = WithoutEntry(registry, name)
              /\ pass' = [pass EXCEPT ![p] =
                            LoopFrom([@ EXCEPT !.removed = @ \cup {name},
                                               !.stale = IF Changed(pass[p].snapshot, name)
                                                         THEN @ \cup {name} ELSE @],
                                     @.idx + 1)]
           \/ /\ \E err \in ErrorValues : pass' = [pass EXCEPT ![p] = Caught(@, err)]
              /\ UNCHANGED registry
    /\ UNCHANGED <<clock, lastPruneAtMs, docker, policyVars, listVars, cmdVars, ensureVars>>

\* Another flow of the process uses a sandbox and refreshes the lastUsedAtMs
\* of its registry entry.
Touch(name) ==
    /\ \E i \in 1 .. Len(registry) :
          /\ registry[i].containerName = name
          /\ registry[i].lastUsedAtMs < clock
          /\ registry' = [registry EXCEPT ![i].lastUsedAtMs = clock]
    /\ UNCHANGED <<clock, lastPruneAtMs, docker, pass, policyVars, listVars, cmdVars, ensureVars>>

\* Time passes; Date.now() never goes back.
Tick ==
    /\ \E t \in ClockValues : t > clock /\ clock' = t
    /\ UNCHANGED <<lastPruneAtMs, registry, docker, pass, policyVars, listVars, cmdVars, ensureVars>>

----------------------------------------------------------------------------
(* Registry listing: part_000 lines 653-698 *)

\* shared.js resolveSandboxAgentId: the agent id of an "agent:<id>[:rest]"
\* session key, none for any other key.
resolveSandboxAgentId(sessionKey) ==
    CASE sessionKey \in {"agent:a", "agent:a:1"} -> "a"
      [] sessionKey \in {"agent:b", "agent:b:1"} -> "b"
      [] sessionKey \in {"agent:foo", "agent:foo:bar"} -> "foo"
      [] sessionKey \in {"agent:foobar"} -> "foobar"
      [] OTHER -> "none"

\* part_000:696  resolveSandboxConfigForAgent(config, agentId).docker.image,
\* for a configuration that gives agent b an image of its own.
resolveConfiguredImage(agentId) == IF agentId = "b" THEN "img:2" ELSE "img:1"

\* docker.js dockerContainerState: what the query answers for a container in
\* runtime state st. A query that exits non-zero reads as "no such container";
\* the third outcome, a rejecting query, yields no answer (see ListState).
dockerContainerState(st, outcome) ==
    IF outcome = "ok"
    THEN [exists |-> st.exists, running |-> st.exists /\ st.running]
    ELSE [exists |-> FALSE, running |-> FALSE]

\* String.prototype.trim on the output of docker inspect: the image followed
\* by a newline.
Trim(stdout) ==
    SelectSeq(stdout, LAMBDA tok : tok \notin {"\n", " "})

\* part_000:668-674: the image the container runs, when inspect exits 0.
InspectedImage(st) ==
    LET stdout == <<st.image, "\n">>
    IN  Trim(stdout)[1]

IdleList ==
    [ pc       |-> "idle",   \* idle, read, state, inspect, done
      snapshot |-> <<>>,     \* registry.entries as read at line 659
      idx      |-> 0,        \* position of the loop of line 662
      state    |-> [exists |-> FALSE, running |-> FALSE],  \* line 663
      queries  |-> <<>>,     \* per entry: outcome of the state query and of inspect,
                             \* and whether the entry was reported as existing
      results  |-> <<>>,     \* line 660
      result   |-> "none" ]  \* returned / threw

\* part_000:662-663: the loop goes on to the next dockerContainerState call,
\* or returns the results (line 689).
ListLoopFrom(rec, from) ==
    IF from > Len(rec.snapshot)
    THEN [rec EXCEPT !.pc = "done", !.result = "returned", !.idx = from]
    ELSE [rec EXCEPT !.pc = "state", !.idx = from]

\* Faulty variant: the recorded image, not the reported one, is compared with
\* the configured image.
ReconciledRecordedImage(entry, actualImage, state) ==
    LET agentId         == resolveSandboxAgentId(entry.sessionKey)
        configuredImage == resolveConfiguredImage(agentId)
    IN  [ containerName |-> entry.containerName,
          sessionKey    |-> entry.sessionKey,
          createdAtMs   |-> entry.createdAtMs,
          lastUsedAtMs  |-> entry.lastUsedAtMs,
          image         |-> actualImage,
          running       |-> state.running,
          imageMatch    |-> (entry.image = configuredImage) ]

\* part_000:679-686: the reconciled item of the current entry.
Reconciled(entry, actualImage, state) ==
    LET agentId         == resolveSandboxAgentId(entry.sessionKey)
        configuredImage == resolveConfiguredImage(agentId)
    IN  [ containerName |-> entry.containerName,
          sessionKey    |-> entry.sessionKey,
          createdAtMs   |-> entry.createdAtMs,
          lastUsedAtMs  |-> entry.lastUsedAtMs,
          image         |-> actualImage,
          running       |-> state.running,
          imageMatch    |-> (actualImage = configuredImage) ]

\* Faulty variant: the item is put in front of the results (unshift).
PushInFront(rec, actualImage, q) ==
    ListLoopFrom(
        [rec EXCEPT !.results = <<Reconciled(rec.snapshot[rec.idx],
                                             actualImage, rec.state)>> \o @,
                    !.queries = Append(@, q)],
        rec.idx + 1)

\* part_000:681-687: push the item and go on with the loop.
Push(rec, actualImage, q) ==
    ListLoopFrom(
        [rec EXCEPT !.results = Append(@, Reconciled(rec.snapshot[rec.idx],
                                                      actualImage, rec.state)),
                    !.queries = Append(@, q)],
        rec.idx + 1)

\* Faulty variant: the image is inspected whatever the state query said.
AfterStateAlwaysInspect(rec, outcome) == [rec EXCEPT !.pc = "inspect"]

\* part_000:664-666 and 679-687: an entry reported as existing is inspected,
\* any other is pushed with its recorded image.
AfterState(rec, outcome) ==
    IF rec.state.exists
    THEN [rec EXCEPT !.pc = "inspect"]
    ELSE Push(rec, rec.snapshot[rec.idx].image,
              [state |-> outcome, inspect |-> "none", exists |-> FALSE])

\* Faulty variant: the listing drops the registry entry of a container the
\* runtime does not report.
registryWithoutMissing(reg, entry, state) ==
    IF state.exists THEN reg ELSE WithoutEntry(reg, entry.containerName)

\* part_000:662-688: the loop body writes nothing to the registry.
registryAfterReconcile(reg, entry, state) == reg

\* part_000:692-694 and 659: listSandboxContainers calls params.read().
ListStart ==
    /\ list.pc = "idle"
    /\ list' = [list EXCEPT !.pc = "read"]
    /\ UNCHANGED <<pruneVars, policyVars, cmdVars, ensureVars>>

\* part_000:659: the read resolves with the entries, or rejects.
ListRead ==
    /\ list.pc = "read"
    /\ \/ list' = ListLoopFrom([list EXCEPT !.snapshot = registry], 1)
       \/ list' = [list EXCEPT !.pc = "done", !.result = "threw"]
    /\ UNCHANGED <<pruneVars, policyVars, cmdVars, ensureVars>>

\* part_000:663-666: dockerContainerState resolves (from the runtime, or
\* degraded after a non-zero exit), or rejects; the call is in no try block,
\* so a rejection ends the listing. An entry that does not exist is pushed
\* with its recorded image, an existing one is inspected.
ListState ==
    /\ list.pc = "state"
    /\ LET entry == list.snapshot[list.idx]
       IN  \/ \E outcome \in {"ok", "failed"} :
                LET st == dockerContainerState(docker[entry.containerName], outcome)
                IN  /\ list' = AfterState([list EXCEPT !.state = st], outcome)
                    /\ registry' = registryAfterReconcile(registry, entry, st)
           \/ /\ list' = [list EXCEPT !.pc = "done", !.result = "threw",
                             !.queries = Append(@, [state |-> "raised", inspect |-> "none",
                                                    exists |-> FALSE])]
              /\ UNCHANGED registry
    /\ UNCHANGED <<clock, lastPruneAtMs, docker, pass, policyVars, cmdVars, ensureVars>>

\* Faulty variant: the observed image never replaces the recorded one.
actualImageAlwaysRecorded(entry, st, outcome) == entry.image

\* part_000:665-677: actualImage starts as entry.image and is replaced by
\* the trimmed output of an inspect that exited 0.
actualImage(entry, st, outcome) ==
    IF outcome = "ok" THEN InspectedImage(st) ELSE entry.image

\* part_000:667-678: docker inspect exits 0 and gives the image, exits
\* non-zero, or rejects; the last two keep the recorded image.
ListInspect ==
    /\ list.pc = "inspect"
    /\ LET entry == list.snapshot[list.idx]
       IN  \E outcome \in {"ok", "failed", "raised"} :
             list' = Push(list,
                          actualImage(entry, docker[entry.containerName], outcome),
                          [state |-> "ok", inspect |-> outcome,
                           exists |-> list.state.exists])
    /\ UNCHANGED <<pruneVars, policyVars, cmdVars, ensureVars>>

\* Runtime states a registered container can be in when the listing starts.
DockerStates ==
    { [exists |-> FALSE, running |-> FALSE, image |-> ""],
      [exists |-> TRUE,  running |-> FALSE, image |-> "img:1"],
      [exists |-> TRUE,  running |-> TRUE,  image |-> "img:1"],
      [exists |-> TRUE,  running |-> TRUE,  image |-> "img:2"] }

----------------------------------------------------------------------------
(* Command surface: sandbox.ts; removeSandboxContainer: part_000 lines 700-707 *)

\* A string as the sequence of its parts, so that a prefix of the string is a
\* prefix of the sequence ("agent:foobar" starts with "agent:foo").
Text(str) ==
    CASE str = "agent:foo"     -> <<"agent:", "foo">>
      [] str = "agent:foo:bar" -> <<"agent:", "foo", ":", "bar">>
      [] str = "agent:foobar"  -> <<"agent:", "foo", "bar">>
      [] str = "foo"           -> <<"foo">>
      [] str = "foobar"        -> <<"foo", "bar">>
      [] str = "agent:"        -> <<"agent:">>
      [] str = ":"             -> <<":">>
      [] OTHER                 -> <<str>>

\* String.prototype.startsWith
StartsWith(text, prefix) ==
    Len(prefix) <= Len(text) /\ SubSeq(text, 1, Len(prefix)) = prefix

\* Three containers of agent foo, of one of its sessions and of agent foobar.
CommandRegistry ==
    << Entry("c1", "img:1", "agent:foo:bar", StartMs - 2 * 60 * 60 * 1000, StartMs),
       Entry("c2", "img:1", "agent:foobar",  StartMs - 60 * 60 * 1000, StartMs),
       Entry("c3", "img:2", "agent:foo",     StartMs - 60 * 60 * 1000, StartMs) >>

\* sandbox.ts:21-26  SandboxRecreateOptions; "none" is an option not given.
RecreateOptions ==
    [ all     : BOOLEAN,
      session : {"none", "agent:foo:bar", "agent:foo"},
      agent   : {"none", "foo", "foobar"},
      force   : BOOLEAN ]

NoOptions == [all |-> FALSE, session |-> "none", agent |-> "none", force |-> FALSE]

IdleCmd ==
    [ kind         |-> "none",   \* list, recreate
      pc           |-> "idle",   \* idle, fetch, confirm, docker, registry, done
      opts         |-> NoOptions,
      json         |-> FALSE,    \* sandbox.ts:18
      validated    |-> FALSE,    \* validateRecreateOptions returned true
      containers   |-> <<>>,     \* sandbox.ts:34 / 55
      prompted     |-> FALSE,    \* clackConfirm was called
      answer       |-> "none",   \* what it resolved to: yes, no, cancel
      idx          |-> 0,        \* position of the loop of sandbox.ts:135
      rm           |-> [n \in Names |-> "none"],  \* outcome of execDocker rm per name
      reg          |-> [n \in Names |-> "none"],  \* outcome of removeRegistryEntry per name
      attempts     |-> <<>>,     \* per removeContainer call: [name, success]
      successCount |-> 0,
      failCount    |-> 0,
      out          |-> <<>>,     \* what runtime.log / runtime.error / display* got
      exitCode     |-> 0,        \* argument of runtime.exit, 0 when not called
      raised       |-> FALSE ]   \* the command rejected

\* Faulty variant: only the "none given" check, the "only one of" check missing.
validateAtLeastOne(opts) ==
    IF ~opts.all /\ opts.session = "none" /\ opts.agent = "none"
    THEN "none" ELSE "ok"

\* sandbox.ts:79-94 validateRecreateOptions: ok, or which usage error.
validateRecreateOptions(opts) ==
    IF ~opts.all /\ opts.session = "none" /\ opts.agent = "none"
    THEN "none"
    ELSE LET exclusiveCount == (IF opts.all THEN 1 ELSE 0)
                               + (IF opts.session # "none" THEN 1 ELSE 0)
                               + (IF opts.agent # "none" THEN 1 ELSE 0)
         IN  IF exclusiveCount > 1 THEN "many" ELSE "ok"

\* Faulty variant: agent mode takes every key that starts with "agent:<id>".
filterByBarePrefix(opts, containers) ==
    IF opts.session # "none"
    THEN SelectSeq(containers, LAMBDA c : c.sessionKey = opts.session)
    ELSE IF opts.agent # "none"
         THEN LET agentPrefix == Text("agent:") \o Text(opts.agent)
              IN  SelectSeq(containers, LAMBDA c : StartsWith(Text(c.sessionKey), agentPrefix))
         ELSE containers

\* sandbox.ts:103-112: the filter of fetchAndFilterContainers.
filterContainers(opts, containers) ==
    IF opts.session # "none"
    THEN SelectSeq(containers, LAMBDA c : c.sessionKey = opts.session)
    ELSE IF opts.agent # "none"
         THEN LET agentPrefix == Text("agent:") \o Text(opts.agent)
              IN  SelectSeq(containers,
                            LAMBDA c : \/ Text(c.sessionKey) = agentPrefix
                                       \/ StartsWith(Text(c.sessionKey),
                                                     agentPrefix \o Text(":")))
         ELSE containers

\* Faulty variant: no .catch on listSandboxContainers().
listedUncaught(l) ==
    IF l.result = "returned"
    THEN [raised |-> FALSE, containers |-> l.results]
    ELSE [raised |-> TRUE, containers |-> <<>>]

\* sandbox.ts:34 and 101: listSandboxContainers().catch(() => [])
listedOrEmpty(l) ==
    [raised |-> FALSE,
     containers |-> IF l.result = "returned" THEN l.results ELSE <<>>]

\* Faulty variant: a cancelled prompt (the cancel symbol) counts as a yes.
confirmedUnlessNo(answer) == answer # "no"

\* sandbox.ts:123: result !== false && result !== Symbol.for("clack:cancel")
confirmed(answer) == answer # "no" /\ answer # "cancel"

\* Faulty variant: one failed removal is not enough for the exit status.
exitAfterSecondFailure(failCount) == IF failCount > 1 THEN 1 ELSE 0

\* sandbox.ts:72-74: runtime.exit(1) when a removal failed.
exitAfterRemoval(failCount) == IF failCount > 0 THEN 1 ELSE 0

\* Faulty variant: the loop stops at the first failed removal.
removalLoopStopsOnFailure(rec, from) ==
    IF from > Len(rec.containers) \/ rec.failCount > 0
    THEN [rec EXCEPT !.pc = "done", !.idx = from,
                     !.out = Append(@, <<"result", rec.successCount, rec.failCount>>),
                     !.exitCode = exitAfterRemoval(rec.failCount)]
    ELSE [rec EXCEPT !.pc = "docker", !.idx = from]

\* sandbox.ts:135-144 and 69-74: the loop goes on to the next removeContainer
\* call (whose first await is execDocker rm, part_000:702), or returns the
\* counts, which are displayed and decide the exit status.
removalLoopFrom(rec, from) ==
    IF from > Len(rec.containers)
    THEN [rec EXCEPT !.pc = "done", !.idx = from,
                     !.out = Append(@, <<"result", rec.successCount, rec.failCount>>),
                     !.exitCode = exitAfterRemoval(rec.failCount)]
    ELSE [rec EXCEPT !.pc = "docker", !.idx = from]

\* sandbox.ts:30-34: the list command starts the listing.
ListCommandStart(json) ==
    /\ cmd.pc = "idle" /\ list.pc = "idle"
    /\ cmd' = [cmd EXCEPT !.kind = "list", !.pc = "fetch", !.json = json]
    /\ list' = [list EXCEPT !.pc = "read"]
    /\ UNCHANGED <<pruneVars, policyVars, ensureVars>>

\* sandbox.ts:34-42: the listing ended; its items, or none, are printed.
ListCommandPrint ==
    /\ cmd.kind = "list" /\ cmd.pc = "fetch" /\ list.pc = "done"
    /\ LET got == listedOrEmpty(list)
       IN  cmd' = [cmd EXCEPT
                     !.pc = "done",
                     !.raised = got.raised,
                     !.containers = got.containers,
                     !.out = IF got.raised THEN @
                             ELSE IF cmd.json
                                  THEN Append(@, <<"json", got.containers>>)
                                  ELSE @ \o << <<"table", got.containers>>,
                                              <<"summary", Len(got.containers)>> >>]
    /\ UNCHANGED <<pruneVars, policyVars, listVars, ensureVars>>

\* sandbox.ts:47-55 and 79-94: validation; a usage error is reported and
\* exit(1) requested, valid options start the listing.
RecreateStart(opts) ==
    /\ cmd.pc = "idle" /\ list.pc = "idle"
    /\ LET verdict == validateRecreateOptions(opts)
           rec     == [cmd EXCEPT !.kind = "recreate", !.opts = opts]
       IN  IF verdict = "ok"
           THEN /\ cmd' = [rec EXCEPT !.pc = "fetch", !.validated = TRUE]
                /\ list' = [list EXCEPT !.pc = "read"]
           ELSE /\ cmd' = [rec EXCEPT !.pc = "done", !.exitCode = 1,
                                      !.out = Append(@, <<"usage", verdict>>)]
                /\ UNCHANGED list
    /\ UNCHANGED <<pruneVars, policyVars, ensureVars>>

\* sandbox.ts:55-69 and 98-113: the listing ended; filter, stop on an empty
\* selection, show the preview, then ask (no force) or start removing (force).
RecreateFetched ==
    /\ cmd.kind = "recreate" /\ cmd.pc = "fetch" /\ list.pc = "done"
    /\ LET got      == listedOrEmpty(list)
           selected == filterContainers(cmd.opts, got.containers)
           rec      == [cmd EXCEPT !.containers = selected]
       IN  cmd' = IF got.raised
                  THEN [cmd EXCEPT !.pc = "done", !.raised = TRUE]
                  ELSE IF Len(selected) = 0
                  THEN [rec EXCEPT !.pc = "done",
                            !.out = Append(@, <<"No containers found matching the criteria.">>)]
                  ELSE IF cmd.opts.force
                  THEN removalLoopFrom(
                           [rec EXCEPT !.out = @ \o << <<"preview", selected>>,
                                                       <<"Removing containers...">> >>], 1)
                  ELSE [rec EXCEPT !.pc = "confirm", !.prompted = TRUE,
                                   !.out = Append(@, <<"preview", selected>>)]
    /\ UNCHANGED <<pruneVars, policyVars, listVars, ensureVars>>

\* sandbox.ts:64-69 and 117-124: the prompt resolves to yes, no or cancel.
RecreateConfirm ==
    /\ cmd.pc = "confirm"
    /\ \E answer \in {"yes", "no", "cancel"} :
         cmd' = IF confirmed(answer)
                THEN removalLoopFrom(
                         [cmd EXCEPT !.answer = answer,
                                     !.out = Append(@, <<"Removing containers...">>)], 1)
                ELSE [cmd EXCEPT !.answer = answer, !.pc = "done",
                                 !.out = Append(@, <<"Cancelled.">>)]
    /\ UNCHANGED <<pruneVars, policyVars, listVars, ensureVars>>

\* Faulty variant: a rejecting runtime removal rejects removeSandboxContainer,
\* the registry entry is kept and removeContainer counts a failure.
afterRuntimeRemovalUncaught(rec, name, outcome) ==
    IF outcome = "raised"
    THEN removalLoopFrom(
             [rec EXCEPT !.failCount = @ + 1,
                         !.attempts = Append(@, [name |-> name, success |-> FALSE]),
                         !.out = Append(@, <<"failed", name>>)],
             rec.idx + 1)
    ELSE [rec EXCEPT !.pc = "registry"]

\* part_000:701-706: the catch swallows, removeRegistryEntry is called next.
afterRuntimeRemoval(rec, name, outcome) == [rec EXCEPT !.pc = "registry"]

\* part_000:701-705: execDocker(["rm", "-f", name], {allowFailure: true})
\* removes the container, exits non-zero or rejects; all three go on to the
\* registry removal.
RemoveDocker ==
    /\ cmd.pc = "docker"
    /\ LET name == cmd.containers[cmd.idx].containerName
       IN  \E outcome \in {"ok", "failed", "raised"} :
             /\ docker' = IF outcome = "ok" THEN [docker EXCEPT ![name] = Absent]
                          ELSE docker
             /\ cmd' = afterRuntimeRemoval([cmd EXCEPT !.rm[name] = outcome], name, outcome)
    /\ UNCHANGED <<clock, lastPruneAtMs, registry, pass, policyVars, listVars, ensureVars>>

\* part_000:706 and sandbox.ts:136-141, 152-159: removeRegistryEntry resolves
\* (success) or rejects (caught by removeContainer: failure); the count goes
\* up and the loop goes on.
RemoveRegistry ==
    /\ cmd.pc = "registry"
    /\ LET name == cmd.containers[cmd.idx].containerName
       IN  \/ /\ registry' = WithoutEntry(registry, name)
              /\ cmd' = removalLoopFrom(
                            [cmd EXCEPT !.successCount = @ + 1, !.reg[name] = "ok",
                                        !.attempts = Append(@, [name |-> name, success |-> TRUE]),
                                        !.out = Append(@, <<"removed", name>>)],
                            cmd.idx + 1)
           \/ /\ UNCHANGED registry
              /\ cmd' = removalLoopFrom(
                            [cmd EXCEPT !.failCount = @ + 1, !.reg[name] = "rejected",
                                        !.attempts = Append(@, [name |-> name, success |-> FALSE]),
                                        !.out = Append(@, <<"failed", name>>)],
                            cmd.idx + 1)
    /\ UNCHANGED <<clock, lastPruneAtMs, docker, pass, policyVars, listVars, ensureVars>>

----------------------------------------------------------------------------
(* ensureDockerContainerIsRunning: prune.ts lines 82-87 *)

IdleEnsure ==
    [ pc       |-> "idle",    \* idle, state, start, done
      name     |-> "none",    \* containerName
      before   |-> [n \in Names |-> Absent],   \* the runtime when the call was made
      reported |-> FALSE,     \* dockerContainerState resolved
      state    |-> [exists |-> FALSE, running |-> FALSE],   \* line 83
      issued   |-> <<>>,      \* execDocker calls made by the function
      result   |-> "none" ]   \* returned / threw

\* Faulty variant: whatever is not running is started, existing or not.
needsStartUnlessRunning(state) == ~state.running

\* prune.ts:84: state.exists && !state.running
needsStart(state) == state.exists /\ ~state.running

\* prune.ts:82-83: the call awaits dockerContainerState(containerName).
EnsureCall(name) ==
    /\ ens.pc = "idle"
    /\ ens' = [ens EXCEPT !.pc = "state", !.name = name, !.before = docker]
    /\ UNCHANGED <<pruneVars, policyVars, listVars, cmdVars>>

\* prune.ts:83-86: the state query resolves (from the runtime, or degraded
\* after a non-zero exit) and the container is started when it exists and
\* does not run; or the query rejects, and so does the call.
EnsureState ==
    /\ ens.pc = "state"
    /\ \/ \E outcome \in {"ok", "failed"} :
            LET state == dockerContainerState(docker[ens.name], outcome)
            IN  ens' = IF needsStart(state)
                       THEN [ens EXCEPT !.pc = "start", !.reported = TRUE, !.state = state,
                                        !.issued = Append(@, <<"start", ens.name>>)]
                       ELSE [ens EXCEPT !.pc = "done", !.reported = TRUE, !.state = state,
                                        !.result = "returned"]
       \/ ens' = [ens EXCEPT !.pc = "done", !.result = "threw"]
    /\ UNCHANGED <<pruneVars, policyVars, listVars, cmdVars>>

\* prune.ts:85: execDocker(["start", name]) without allowFailure: the
\* container runs afterwards, or the call rejects.
EnsureStart ==
    /\ ens.pc = "start"
    /\ \/ /\ docker' = [docker EXCEPT ![ens.name].running = docker[ens.name].exists]
          /\ ens' = [ens EXCEPT !.pc = "done", !.result = "returned"]
       \/ /\ UNCHANGED docker
          /\ ens' = [ens EXCEPT !.pc = "done", !.result = "threw"]
    /\ UNCHANGED <<clock, lastPruneAtMs, registry, pass, policyVars, listVars, cmdVars>>


Init ==
    /\ clock = StartMs
    /\ lastPruneAtMs = 0
    /\ registry = InitialRegistry
    /\ docker = InitialDocker
    /\ pass = [p \in Callers |-> IdlePass]
    /\ pIn = NoInput
    /\ pOut = NoOutput
    /\ list = IdleList
    /\ cmd = IdleCmd
    /\ ens = IdleEnsure

Next ==
    \/ \E p \in Callers, c \in PruneCfgs : Trigger(p, c)
    \/ \E p \in Callers : ReadRegistry(p)
    \/ \E p \in Callers : DockerRm(p)
    \/ \E p \in Callers : RegRemove(p)
    \/ Tick

Spec == Init /\ [][Next]_vars

PolicyInit ==
    /\ clock = StartMs
    /\ lastPruneAtMs = 0
    /\ registry = InitialRegistry
    /\ docker = InitialDocker
    /\ pass = [p \in Callers |-> IdlePass]
    /\ pIn \in PolicyInputs
    /\ pOut = NoOutput
    /\ list = IdleList
    /\ cmd = IdleCmd
    /\ ens = IdleEnsure

PolicyNext == Evaluate

SpecPolicy == PolicyInit /\ [][PolicyNext]_vars

ListInit ==
    /\ clock = StartMs
    /\ lastPruneAtMs = 0
    /\ registry = InitialRegistry
    /\ docker \in [Names -> DockerStates]
    /\ pass = [p \in Callers |-> IdlePass]
    /\ pIn = NoInput
    /\ pOut = NoOutput
    /\ list = IdleList
    /\ cmd = IdleCmd
    /\ ens = IdleEnsure

ListNext == ListStart \/ ListRead \/ ListState \/ ListInspect

\* One caller's prune passes while other flows refresh registry entries.
SnapshotNext ==
    \/ \E c \in PruneCfgs : Trigger("a", c)
    \/ ReadRegistry("a")
    \/ DockerRm("a")
    \/ RegRemove("a")
    \/ \E name \in Names : Touch(name)
    \/ Tick

SpecSnapshot == Init /\ [][SnapshotNext]_vars

SpecList == ListInit /\ [][ListNext]_vars

\* The four operations of the core side by side on one registry and one
\* runtime: a prune pass with the age rule, a list command or a forced
\* recreate of everything (each with its listing), and
\* ensureDockerContainerIsRunning on c2.
CoreNext ==
    \/ Trigger("a", [idleHours |-> 0, maxAgeDays |-> 1])
    \/ ReadRegistry("a")
    \/ DockerRm("a")
    \/ RegRemove("a")
    \/ ListCommandStart(TRUE)
    \/ ListCommandPrint
    \/ RecreateStart([all |-> TRUE, session |-> "none", agent |-> "none", force |-> TRUE])
    \/ ListRead
    \/ ListState
    \/ ListInspect
    \/ RecreateFetched
    \/ RemoveDocker
    \/ RemoveRegistry
    \/ EnsureCall("c2")
    \/ EnsureState
    \/ EnsureStart

\* The registry holds the first two entries; the age rule selects the second.
CoreInit ==
    /\ clock = StartMs
    /\ lastPruneAtMs = 0
    /\ registry = SubSeq(InitialRegistry, 1, 2)
    /\ docker = InitialDocker
    /\ pass = [p \in Callers |-> IdlePass]
    /\ pIn = NoInput
    /\ pOut = NoOutput
    /\ list = IdleList
    /\ cmd = IdleCmd
    /\ ens = IdleEnsure

SpecCore == CoreInit /\ [][CoreNext]_vars

CommandInit ==
    /\ clock = StartMs
    /\ lastPruneAtMs = 0
    /\ registry = CommandRegistry
    /\ docker = InitialDocker
    /\ pass = [p \in Callers |-> IdlePass]
    /\ pIn = NoInput
    /\ pOut = NoOutput
    /\ list = IdleList
    /\ cmd = IdleCmd
    /\ ens = IdleEnsure

CommandNext ==
    \/ \E json \in BOOLEAN : ListCommandStart(json)
    \/ ListCommandPrint
    \/ \E opts \in RecreateOptions : RecreateStart(opts)
    \/ ListRead
    \/ ListState
    \/ ListInspect
    \/ RecreateFetched
    \/ RecreateConfirm
    \/ RemoveDocker
    \/ RemoveRegistry

SpecCommand == CommandInit /\ [][CommandNext]_vars

EnsureInit ==
    /\ clock = StartMs
    /\ lastPruneAtMs = 0
    /\ registry = InitialRegistry
    /\ docker \in [Names -> DockerStates]
    /\ pass = [p \in Callers |-> IdlePass]
    /\ pIn = NoInput
    /\ pOut = NoOutput
    /\ list = IdleList
    /\ cmd = IdleCmd
    /\ ens = IdleEnsure

EnsureNext ==
    \/ \E name \in Names : EnsureCall(name)
    \/ EnsureState
    \/ EnsureStart

SpecEnsure == EnsureInit /\ [][EnsureNext]_vars

----------------------------------------------------------------------------
(* Properties of the prune trigger and the prune pass (under Spec) *)

Called(p)   == pass[p].pc # "idle"
InFlight(p) == pass[p].pc \in {"read", "docker", "remove"}
NoRuntimeCall(p) == \A n \in Names : pass[p].rm[n] = "none"

SnapNames(p) == SeqNames(pass[p].snapshot)

\* Names of the entries of the pass's read that the policy selects for the
\* pass's own time and thresholds.
Selected(p) ==
    { pass[p].snapshot[i].containerName : i \in
        { j \in 1 .. Len(pass[p].snapshot) :
            shouldPruneSandboxEntry(pass[p].cfg, pass[p].now, pass[p].snapshot[j]) } }

\* The pass read the registry and ended with no rejecting registry call.
CompletedPass(p) ==
    pass[p].pc = "done" /\ pass[p].reads = 1 /\ pass[p].error = "none"

\* C1: a call made less than 5 minutes after lastPruneAtMs returns without
\* reading the registry and without any runtime or registry removal; and of
\* two calls less than 5 minutes apart, one of which passed the rate-limit
\* check, the other one never reads the registry.
C1_RateLimitedCallIsNoOp ==
    /\ \A p \in Callers :
          (Called(p) /\ pass[p].now - pass[p].lastSeen < 5 * 60 * 1000) =>
              /\ pass[p].pc = "done"
              /\ pass[p].result = "returned"
              /\ pass[p].reads = 0
              /\ NoRuntimeCall(p)
              /\ pass[p].removed = {}
    /\ \A p, q \in Callers :
          ( /\ p # q /\ Called(p) /\ Called(q) /\ pass[p].passed
            /\ pass[q].now - pass[p].now < 5 * 60 * 1000
            /\ pass[p].now - pass[q].now < 5 * 60 * 1000 ) =>
              pass[q].reads = 0

\* A pass read the registry, and a later call with enabled thresholds, one
\* millisecond short of 5 minutes after it, was turned away.
C1_Witness ==
    \E p, q \in Callers :
        /\ p # q /\ pass[p].passed /\ pass[p].reads = 1
        /\ Called(q) /\ ~pass[q].passed /\ pass[q].cfg.idleHours = 1
        /\ pass[q].now - pass[p].now = 5 * 60 * 1000 - 1
        /\ pass[q].pc = "done" /\ pass[q].reads = 0

\* C2, as stated: no two prune passes are ever in flight at the same time.
C2_NoTwoPassesInFlight ==
    \A p, q \in Callers : p # q => ~(InFlight(p) /\ InFlight(q))

\* C2, amended: two passes are in flight together only when the earlier one
\* started 5 minutes ago or more; no trigger starts a pass while a pass that
\* started less than 5 minutes ago is in flight.
C2_OverlapOnlyAfterWindow ==
    \A p, q \in Callers :
        (p # q /\ InFlight(p) /\ InFlight(q) /\ pass[p].now <= pass[q].now) =>
            /\ clock - pass[p].now >= 5 * 60 * 1000
            /\ pass[q].now - pass[p].now >= 5 * 60 * 1000

\* A pass still waits for its runtime removal while a second pass, started
\* 5 minutes later, has read the registry.
C2_Witness ==
    \E p, q \in Callers :
        /\ p # q /\ pass[p].pc = "docker" /\ pass[q].pc \in {"docker", "remove"}
        /\ pass[q].now - pass[p].now = 5 * 60 * 1000

\* A call that was turned away, or that ended, never moves again.
EndedCallStaysEnded ==
    \A p \in Callers : pass[p].pc = "done" => pass'[p] = pass[p]

\* C3: check and write are one step: any two calls that pass the check are
\* at least 5 minutes apart, lastPruneAtMs is never behind a call that passed,
\* and a rejected call is a no-op that never runs later.
C3_CheckAndSetAtomic ==
    /\ [](\A p, q \in Callers :
            (p # q /\ pass[p].passed /\ pass[q].passed) =>
                \/ pass[q].now - pass[p].now >= 5 * 60 * 1000
                \/ pass[p].now - pass[q].now >= 5 * 60 * 1000)
    /\ [](\A p \in Callers : pass[p].passed => lastPruneAtMs >= pass[p].now)
    /\ [](\A p \in Callers :
            (Called(p) /\ ~pass[p].passed) => (pass[p].pc = "done" /\ pass[p].reads = 0))
    /\ [][EndedCallStaysEnded]_vars

\* Both callers triggered at the same instant: one passed, the other was
\* rejected while the first was still in flight.
C3_Witness ==
    \E p, q \in Callers :
        /\ p # q /\ pass[p].passed /\ InFlight(p)
        /\ Called(q) /\ ~pass[q].passed /\ pass[q].now = pass[p].now

\* C4: once the runtime removal of a selected entry has ended, whatever its
\* outcome (ok, failed, raised), the registry removal of that entry is called:
\* the entry is out of the registry unless that call is pending or has
\* itself rejected.
C4_RegistryRemovalAfterAnyRuntimeOutcome ==
    \A p \in Callers : \A n \in Names :
        pass[p].rm[n] # "none" =>
            \/ n \notin RegNames
            \/ /\ pass[p].idx \in 1 .. Len(pass[p].snapshot)
               /\ pass[p].snapshot[pass[p].idx].containerName = n
               /\ \/ pass[p].pc = "remove"
                  \/ pass[p].pc = "done" /\ pass[p].error # "none"

\* A pass went past an entry whose runtime removal raised and another whose
\* runtime removal failed, and both are out of the registry.
C4_Witness ==
    \E p \in Callers : \E n, m \in Names :
        /\ pass[p].rm[n] = "raised" /\ pass[p].rm[m] = "failed"
        /\ n \in pass[p].removed /\ m \in pass[p].removed
        /\ n \notin RegNames /\ m \notin RegNames

Alone(p) ==
    \A q \in Callers \ {p} : pass[q].removed = {} /\ NoRuntimeCall(q)

\* C6, as stated: after a pass with no failing registry call the registry
\* holds exactly the read entries that were not selected, every selected entry
\* is gone from the runtime and the registry, every other entry is untouched.
C6_SelectedGoneFromRuntimeAndRegistry ==
    \A p \in Callers :
        (CompletedPass(p) /\ Alone(p)) =>
            /\ RegNames = SnapNames(p) \ Selected(p)
            /\ \A n \in Selected(p) : ~docker[n].exists
            /\ \A n \in Names \ Selected(p) : docker[n] = InitialDocker[n]

\* C6, amended: after a pass with no failing registry call, the pass has
\* called the runtime removal and the registry removal for exactly the
\* selected entries; every selected entry is out of the registry, and out of
\* the runtime when its runtime removal succeeded; when no other call removes
\* anything, the registry holds exactly the read entries that were not
\* selected and their containers are untouched.
C6_SelectedGoneFromRegistry ==
    \A p \in Callers :
        CompletedPass(p) =>
            /\ pass[p].removed = Selected(p)
            /\ { n \in Names : pass[p].rm[n] # "none" } = Selected(p)
            /\ Selected(p) \cap RegNames = {}
            /\ \A n \in Names : pass[p].rm[n] = "ok" => ~docker[n].exists
            /\ Alone(p) =>
                  /\ RegNames = SnapNames(p) \ Selected(p)
                  /\ \A n \in Names \ Selected(p) : docker[n] = InitialDocker[n]

\* A pass alone removed c1 and c2, the runtime removal of c1 failed and c1 is
\* still in the runtime, c3 stays registered.
C6_Witness ==
    \E p \in Callers :
        /\ CompletedPass(p) /\ Alone(p)
        /\ Selected(p) = {"c1", "c2"}
        /\ pass[p].rm["c1"] = "failed" /\ docker["c1"].exists
        /\ pass[p].rm["c2"] = "ok" /\ ~docker["c2"].exists
        /\ RegNames = {"c3"}

\* C7: a call whose thresholds are both 0 never reads the registry, never
\* calls the runtime and never removes a registry entry.
C7_ZeroThresholdsSkip ==
    \A p \in Callers :
        (Called(p) /\ pass[p].cfg.idleHours = 0 /\ pass[p].cfg.maxAgeDays = 0) =>
            /\ pass[p].pc = "done"
            /\ pass[p].reads = 0
            /\ NoRuntimeCall(p)
            /\ pass[p].removed = {}

\* A call with both thresholds 0 passed the rate limit and ended at once,
\* the registry and the runtime as they started.
C7_Witness ==
    \E p \in Callers :
        /\ pass[p].passed /\ pass[p].cfg.idleHours = 0 /\ pass[p].cfg.maxAgeDays = 0
        /\ pass[p].pc = "done" /\ pass[p].reads = 0
        /\ lastPruneAtMs = pass[p].now
        /\ registry = InitialRegistry /\ docker = InitialDocker

----------------------------------------------------------------------------
(* Properties of the prune policy (under SpecPolicy) *)

IdleRule == pIn.cfg.idleHours > 0
            /\ pIn.now - pIn.entry.lastUsedAtMs > pIn.cfg.idleHours * 3600000
AgeRule  == pIn.cfg.maxAgeDays > 0
            /\ pIn.now - pIn.entry.createdAtMs > pIn.cfg.maxAgeDays * 86400000

\* C8: shouldPruneSandboxEntry is the "or" of the idle rule and the age rule:
\* false for every entry when both thresholds are 0, true when either rule
\* holds alone.
C8_PolicyIsOrOfRules ==
    pOut.done =>
        /\ pOut.value = (IdleRule \/ AgeRule)
        /\ (pIn.cfg.idleHours = 0 /\ pIn.cfg.maxAgeDays = 0) => pOut.value = FALSE
        /\ (IdleRule /\ ~AgeRule) => pOut.value = TRUE
        /\ (AgeRule /\ ~IdleRule) => pOut.value = TRUE

\* The idle rule alone holds (age threshold enabled, entry not old enough)
\* and the entry is pruned.
C8_Witness ==
    /\ pOut.done /\ pOut.value = TRUE /\ IdleRule /\ ~AgeRule
    /\ pIn.cfg.maxAgeDays > 0

AtIdleBoundary   == pIn.entry.lastUsedAtMs = pIn.now - pIn.cfg.idleHours * 3600000
PastIdleBoundary == pIn.entry.lastUsedAtMs = pIn.now - pIn.cfg.idleHours * 3600000 - 1
AtAgeBoundary    == pIn.entry.createdAtMs = pIn.now - pIn.cfg.maxAgeDays * 86400000
PastAgeBoundary  == pIn.entry.createdAtMs = pIn.now - pIn.cfg.maxAgeDays * 86400000 - 1

\* C9, as stated: for every idleHours, with the age rule not satisfied, an
\* entry at the idle boundary is not pruned and one a millisecond older is;
\* likewise for maxAgeDays with the idle rule not satisfied.
C9_BoundaryForEveryThreshold ==
    pOut.done =>
        /\ (~AgeRule /\ AtIdleBoundary) => pOut.value = FALSE
        /\ (~AgeRule /\ PastIdleBoundary) => pOut.value = TRUE
        /\ (~IdleRule /\ AtAgeBoundary) => pOut.value = FALSE
        /\ (~IdleRule /\ PastAgeBoundary) => pOut.value = TRUE

\* C9, amended: the same for an enabled threshold (idleHours > 0, maxAgeDays
\* > 0); a threshold of 0 disables its rule, so the entry one millisecond
\* past it is not pruned.
C9_StrictThresholds ==
    pOut.done =>
        /\ (~AgeRule /\ AtIdleBoundary) => pOut.value = FALSE
        /\ (~AgeRule /\ PastIdleBoundary /\ pIn.cfg.idleHours > 0) => pOut.value = TRUE
        /\ (~AgeRule /\ PastIdleBoundary /\ pIn.cfg.idleHours = 0) => pOut.value = FALSE
        /\ (~IdleRule /\ AtAgeBoundary) => pOut.value = FALSE
        /\ (~IdleRule /\ PastAgeBoundary /\ pIn.cfg.maxAgeDays > 0) => pOut.value = TRUE
        /\ (~IdleRule /\ PastAgeBoundary /\ pIn.cfg.maxAgeDays = 0) => pOut.value = FALSE

\* An entry exactly at an enabled idle threshold, age rule enabled and not
\* satisfied, evaluated to "not pruned".
C9_Witness ==
    /\ pOut.done /\ pOut.value = FALSE /\ AtIdleBoundary /\ pIn.cfg.idleHours > 0
    /\ pIn.cfg.maxAgeDays > 0 /\ ~AgeRule

----------------------------------------------------------------------------
(* Properties of the listing (under SpecList) *)

\* The listing has read the registry and has ended.
ListEnded == list.pc = "done" /\ (list.result = "threw" => list.queries # <<>>)

\* C10: when a runtime query of one entry fails, the listing still returns
\* one item per registry entry and never raises; an entry whose state query
\* failed is reported as not running with its recorded image, an entry whose
\* inspection failed with its recorded image.
C10_ListingIsTotal ==
    ListEnded =>
        /\ list.result = "returned"
        /\ Len(list.results) = Len(list.snapshot)
        /\ \A i \in 1 .. Len(list.results) :
              /\ list.queries[i].state # "ok" =>
                    /\ list.results[i].running = FALSE
                    /\ list.results[i].image = list.snapshot[i].image
              /\ list.queries[i].inspect \in {"failed", "raised"} =>
                    list.results[i].image = list.snapshot[i].image

\* The image configured for the agent that owns a session key.
ConfiguredFor(sessionKey) == resolveConfiguredImage(resolveSandboxAgentId(sessionKey))

\* C11: an entry whose container the runtime reports as not existing is
\* listed as not running, with the registry's recorded image, and no image
\* inspection is issued for it.
C11_MissingContainerNotInspected ==
    /\ list.pc = "inspect" => list.state.exists
    /\ \A i \in 1 .. Len(list.results) :
          ~list.queries[i].exists =>
              /\ list.results[i].running = FALSE
              /\ list.results[i].image = list.snapshot[i].image
              /\ list.queries[i].inspect = "none"

\* The listing answered the state query of c2, whose container is gone from
\* the runtime while the registry records image img:1, and went on to c3.
C11_Witness ==
    /\ ~docker["c2"].exists
    /\ Len(list.results) >= 2
    /\ list.queries[2] = [state |-> "ok", inspect |-> "none", exists |-> FALSE]
    /\ list.results[2].containerName = "c2"
    /\ list.results[2].running = FALSE
    /\ list.results[2].image = "img:1"
    /\ list.pc \in {"state", "inspect", "done"}

\* C12: imageMatch is true iff the reported image (the observed one when the
\* inspection succeeded, the recorded one otherwise) equals the image
\* configured for the agent of the entry's sessionKey; an existing container
\* whose observed image differs from the configured one has imageMatch false
\* even when the recorded image equals the configured one.
C12_ImageMatchOnReportedImage ==
    \A i \in 1 .. Len(list.results) :
        LET item     == list.results[i]
            entry    == list.snapshot[i]
            observed == docker[entry.containerName].image
            reported == IF list.queries[i].inspect = "ok" THEN observed ELSE entry.image
        IN  /\ item.image = reported
            /\ item.imageMatch = (reported = ConfiguredFor(entry.sessionKey))
            /\ (list.queries[i].inspect = "ok" /\ observed # ConfiguredFor(entry.sessionKey))
                  => item.imageMatch = FALSE

\* c1 is recorded with img:1, the image configured for agent a, but runs
\* img:2: the item carries img:2 and imageMatch false; c2 (agent b, configured
\* img:2, recorded img:1, not inspected with success) does not match either.
C12_Witness ==
    /\ list.pc = "done" /\ list.result = "returned"
    /\ docker["c1"].image = "img:2"
    /\ list.queries[1].inspect = "ok"
    /\ list.snapshot[1].image = "img:1" /\ ConfiguredFor(list.snapshot[1].sessionKey) = "img:1"
    /\ list.results[1].image = "img:2" /\ list.results[1].imageMatch = FALSE
    /\ list.results[3].imageMatch = FALSE

\* What a run of the list command prints for no container at all.
EmptyListing ==
    IF cmd.json THEN << <<"json", <<>> >> >>
    ELSE << <<"table", <<>> >>, <<"summary", 0>> >>

NothingRemoved ==
    /\ cmd.attempts = <<>>
    /\ \A n \in Names : cmd.rm[n] = "none"
    /\ registry = CommandRegistry
    /\ docker = InitialDocker

\* C13: the list command and the recreate command never raise when the
\* registry read or the reconciliation fails: the failure degrades to an
\* empty container list; the list command prints an empty result, the
\* recreate command reports that nothing matches and removes nothing.
C13_CommandsDegradeToEmptyList ==
    /\ ~cmd.raised
    /\ (cmd.pc = "done" /\ list.pc = "done" /\ list.result = "threw") =>
          /\ cmd.containers = <<>>
          /\ cmd.kind = "list" => cmd.out = EmptyListing
          /\ cmd.kind = "recreate" =>
                /\ cmd.out = << <<"No containers found matching the criteria.">> >>
                /\ ~cmd.prompted
                /\ cmd.exitCode = 0
                /\ NothingRemoved

\* recreate --all: the registry was read, the state query of the second
\* entry rejected, the listing threw, and the command ended with nothing to do.
C13_Witness ==
    /\ cmd.kind = "recreate" /\ cmd.opts.all /\ cmd.pc = "done"
    /\ list.result = "threw" /\ Len(list.queries) = 2
    /\ list.queries[2].state = "raised"
    /\ cmd.containers = <<>> /\ ~cmd.raised /\ NothingRemoved

\* Which of the three selection options a recreate run was given.
OptionsGiven(opts) ==
    {o \in {"all", "session", "agent"} :
        CASE o = "all"     -> opts.all
          [] o = "session" -> opts.session # "none"
          [] OTHER         -> opts.agent # "none"}

\* C14: recreate invoked with none, or with two or more, of all, session and
\* agent reports a usage error and requests a non-zero exit, and does no
\* registry read, no confirmation prompt and no container or registry
\* removal; with exactly one of them, validation passes.
C14_ExactlyOneSelectionOption ==
    cmd.kind = "recreate" =>
        IF Cardinality(OptionsGiven(cmd.opts)) = 1
        THEN /\ cmd.validated
             /\ list.pc # "idle"
             /\ cmd.out # <<>> => cmd.out[1][1] # "usage"
        ELSE /\ ~cmd.validated
             /\ cmd.pc = "done"
             /\ cmd.exitCode = 1
             /\ Len(cmd.out) = 1 /\ cmd.out[1][1] = "usage"
             /\ list = IdleList
             /\ ~cmd.prompted
             /\ NothingRemoved

\* recreate --session agent:foo --agent foo: two options, a usage error,
\* exit 1, and the listing never started.
C14_Witness ==
    /\ cmd.kind = "recreate"
    /\ OptionsGiven(cmd.opts) = {"session", "agent"}
    /\ cmd.out = << <<"usage", "many">> >>
    /\ cmd.exitCode = 1
    /\ list = IdleList

\* The session keys a recreate run is to select, spelled out per mode.
KeysToSelect(opts) ==
    IF opts.session # "none" THEN {opts.session}
    ELSE IF opts.agent = "foo" THEN {"agent:foo", "agent:foo:bar"}
    ELSE IF opts.agent = "foobar" THEN {"agent:foobar"}
    ELSE {"agent:foo", "agent:foo:bar", "agent:foobar"}

Fetched == cmd.kind = "recreate" /\ cmd.validated /\ cmd.pc \notin {"idle", "fetch"}

\* C15: the selection of recreate is exact: session mode selects the listed
\* entries whose sessionKey equals the given key, agent mode those whose
\* sessionKey is "agent:<id>" or starts with "agent:<id>:" (agent foo never
\* selects agent:foobar), all mode every listed entry; and only selected
\* entries are ever removed from the runtime or from the registry.
C15_SelectionIsExact ==
    (Fetched /\ list.result = "returned") =>
        LET keys     == KeysToSelect(cmd.opts)
            selected == {list.results[i].containerName : i \in
                            {j \in 1 .. Len(list.results) : list.results[j].sessionKey \in keys}}
        IN  /\ cmd.containers = SelectSeq(list.results, LAMBDA c : c.sessionKey \in keys)
            /\ (cmd.opts.agent = "foo") =>
                  \A i \in 1 .. Len(cmd.containers) :
                      cmd.containers[i].sessionKey # "agent:foobar"
            /\ \A i \in 1 .. Len(cmd.attempts) : cmd.attempts[i].name \in selected
            /\ \A n \in Names \ selected :
                  /\ cmd.rm[n] = "none"
                  /\ docker[n] = InitialDocker[n]
                  /\ n \in RegNames

\* recreate --agent foo --force ended: c1 (agent:foo:bar) and c3 (agent:foo)
\* were selected and removed, c2 (agent:foobar) was listed and is untouched.
C15_Witness ==
    /\ Fetched /\ cmd.pc = "done" /\ cmd.opts.agent = "foo"
    /\ Len(list.results) = 3
    /\ SeqNames(cmd.containers) = {"c1", "c3"}
    /\ RegNames = {"c2"}
    /\ docker["c1"] = Absent /\ docker["c2"] = InitialDocker["c2"]

RemovalStarted ==
    \/ cmd.pc \in {"docker", "registry"}
    \/ cmd.attempts # <<>>
    \/ \E n \in Names : cmd.rm[n] # "none"
    \/ registry # CommandRegistry
    \/ docker # InitialDocker

\* C16: unless force is set, recreate removes nothing before an explicit
\* positive confirmation; a negative answer or a cancelled prompt ends the
\* command with no container removed, no registry entry removed and no
\* non-zero exit; with force set the prompt is never shown and the removal
\* proceeds.
C16_NoRemovalWithoutConfirmation ==
    cmd.kind = "recreate" =>
        /\ (~cmd.opts.force /\ RemovalStarted) => (cmd.prompted /\ cmd.answer = "yes")
        /\ cmd.answer \in {"no", "cancel"} =>
              /\ cmd.pc = "done"
              /\ NothingRemoved
              /\ cmd.exitCode = 0
        /\ cmd.opts.force =>
              /\ ~cmd.prompted /\ cmd.answer = "none"
              /\ (Fetched /\ cmd.containers # <<>>) =>
                    \/ cmd.pc \in {"docker", "registry"}
                    \/ cmd.pc = "done" /\ Len(cmd.attempts) = Len(cmd.containers)

\* recreate --all without force: three containers were previewed, the prompt
\* was cancelled, and the command ended with everything in place.
C16_Witness ==
    /\ cmd.kind = "recreate" /\ ~cmd.opts.force /\ cmd.opts.all
    /\ Len(cmd.containers) = 3
    /\ cmd.prompted /\ cmd.answer = "cancel"
    /\ cmd.pc = "done" /\ cmd.exitCode = 0
    /\ NothingRemoved

\* The run got past the empty-selection check and the confirmation.
Removing ==
    /\ Fetched /\ cmd.containers # <<>>
    /\ cmd.opts.force \/ cmd.answer = "yes"

Successes == {i \in 1 .. Len(cmd.attempts) : cmd.attempts[i].success}

\* C17: once recreate starts removing, it attempts every selected container
\* exactly once, one at a time in list order (the next removal starts only
\* after the previous one finished), a failed removal never stops the
\* remaining ones or rolls back earlier ones, and on completion
\* successCount + failCount is the number of selected containers.
C17_EverySelectedAttemptedOnceInOrder ==
    Removing =>
        /\ Len(cmd.attempts) <= Len(cmd.containers)
        /\ \A i \in 1 .. Len(cmd.attempts) :
              /\ cmd.attempts[i].name = cmd.containers[i].containerName
              /\ cmd.attempts[i].success => cmd.attempts[i].name \notin RegNames
        /\ cmd.successCount = Cardinality(Successes)
        /\ cmd.successCount + cmd.failCount = Len(cmd.attempts)
        /\ cmd.pc \in {"docker", "registry"} =>
              /\ cmd.idx = Len(cmd.attempts) + 1
              /\ \A i \in 1 .. Len(cmd.containers) :
                    i > cmd.idx => cmd.rm[cmd.containers[i].containerName] = "none"
        /\ cmd.pc = "done" =>
              /\ Len(cmd.attempts) = Len(cmd.containers)
              /\ cmd.successCount + cmd.failCount = Len(cmd.containers)

\* recreate --all ended: the first removal failed, the second and the third
\* were still attempted, in list order, and succeeded.
C17_Witness ==
    /\ Removing /\ cmd.pc = "done"
    /\ cmd.attempts = << [name |-> "c1", success |-> FALSE],
                         [name |-> "c2", success |-> TRUE],
                         [name |-> "c3", success |-> TRUE] >>
    /\ cmd.successCount = 2 /\ cmd.failCount = 1
    /\ RegNames = {"c1"}

\* A finished recreate --all --force over three containers in which the
\* runtime removal failed (non-zero exit or rejection) for the second
\* container only, and every registry removal resolved.
SecondRuntimeRemovalFailed ==
    /\ cmd.kind = "recreate" /\ cmd.opts.all /\ cmd.opts.force
    /\ cmd.pc = "done"
    /\ Len(cmd.containers) = 3
    /\ cmd.rm[cmd.containers[1].containerName] = "ok"
    /\ cmd.rm[cmd.containers[2].containerName] \in {"failed", "raised"}
    /\ cmd.rm[cmd.containers[3].containerName] = "ok"
    /\ RegNames = {}

\* C18: recreate --all --force on three containers where the runtime removal
\* of the second container fails transiently ends with successCount = 2 and
\* failCount = 1, all three removals attempted, and a non-zero exit code.
C18_SecondRuntimeFailureCounted ==
    SecondRuntimeRemovalFailed =>
        /\ Len(cmd.attempts) = 3
        /\ cmd.successCount = 2
        /\ cmd.failCount = 1
        /\ cmd.exitCode # 0

\* C19: for a recreate run that passes option validation, the exit with a
\* non-zero status is requested iff failCount > 0: a run whose removals all
\* succeed, a run with an empty selection and a cancelled run never request
\* a non-zero exit.
C19_NonZeroExitIffFailures ==
    (cmd.kind = "recreate" /\ cmd.validated) =>
        /\ cmd.pc # "done" => cmd.exitCode = 0
        /\ cmd.pc = "done" => (cmd.exitCode # 0 <=> cmd.failCount > 0)
        /\ (cmd.pc = "done" /\ Removing /\ cmd.successCount = Len(cmd.containers)) =>
              cmd.exitCode = 0
        /\ (cmd.pc = "done" /\ cmd.containers = <<>>) => cmd.exitCode = 0
        /\ cmd.answer \in {"no", "cancel"} => cmd.exitCode = 0

\* recreate --session agent:foo confirmed with yes: the one selected
\* container could not be dropped from the registry, failCount is 1 and
\* exit(1) was requested.
C19_Witness ==
    /\ cmd.kind = "recreate" /\ cmd.validated /\ cmd.pc = "done"
    /\ cmd.opts.session = "agent:foo" /\ cmd.answer = "yes"
    /\ cmd.attempts = << [name |-> "c3", success |-> FALSE] >>
    /\ cmd.failCount = 1 /\ cmd.successCount = 0
    /\ cmd.exitCode = 1

\* C20: ensureDockerContainerIsRunning(name) issues a runtime start iff the
\* runtime reports the container as existing and not running; for a
\* container that does not exist, or that already runs, it issues no start,
\* no create and no removal.
C20_StartIffExistsAndStopped ==
    /\ ens.reported =>
          /\ (ens.issued # <<>>) <=> (ens.state.exists /\ ~ens.state.running)
          /\ ens.issued \in { <<>>, << <<"start", ens.name>> >> }
          /\ (~ens.state.exists \/ ens.state.running) =>
                /\ ens.issued = <<>>
                /\ docker = ens.before
    /\ ~ens.reported => (ens.issued = <<>> /\ (ens.pc # "idle" => docker = ens.before))
    /\ ens.pc # "idle" =>
          \A n \in Names :
              /\ docker[n].exists = ens.before[n].exists
              /\ n # ens.name => docker[n] = ens.before[n]

\* c2 existed and did not run: the start was issued and c2 runs, while the
\* runtime also held a running and a missing container.
C20_Witness ==
    /\ ens.pc = "done" /\ ens.result = "returned" /\ ens.name = "c2"
    /\ ens.before["c2"].exists /\ ~ens.before["c2"].running
    /\ ens.before["c1"].running /\ ~ens.before["c3"].exists
    /\ ens.issued = << <<"start", "c2">> >>
    /\ docker["c2"].running

----------------------------------------------------------------------------
(* Further properties of the prune pass (under Spec) *)

\* The entry at which the registry removal of the pass rejected, if any.
FailedAt(p, n) ==
    /\ pass[p].error # "none"
    /\ pass[p].idx \in 1 .. Len(pass[p].snapshot)
    /\ pass[p].snapshot[pass[p].idx].containerName = n

\* C21: in a prune pass, a failure while removing one eligible entry (its
\* runtime removal or its registry removal) does not stop the pass: every
\* other eligible entry read at the start of the pass is still processed and
\* removed from the registry.
C21_FailureDoesNotStopPass ==
    \A p \in Callers :
        (pass[p].pc = "done" /\ pass[p].reads = 1 /\ pass[p].snapshot # <<>>) =>
            \A n \in Selected(p) :
                \/ FailedAt(p, n)
                \/ pass[p].rm[n] # "none" /\ n \notin RegNames

\* A step that changes lastPruneAtMs is the first step of a call that passes
\* the rate-limit check: the new value is that call's time, and the call has
\* not yet got anything back from the registry or the runtime.
StampedByPassingCall ==
    lastPruneAtMs' # lastPruneAtMs =>
        \E p \in Callers :
            /\ pass[p].pc = "idle" /\ pass'[p].passed
            /\ pass'[p].now - lastPruneAtMs >= 5 * 60 * 1000
            /\ lastPruneAtMs' = pass'[p].now
            /\ pass'[p].snapshot = <<>> /\ pass'[p].removed = {}
            /\ \A n \in Names : pass'[p].rm[n] = "none"
            /\ \A q \in Callers \ {p} : pass'[q] = pass[q]

\* A call's first step either passes the check and sets lastPruneAtMs to the
\* call's time, or is rate-limited and leaves it unchanged.
FirstStepStampsOrLeaves ==
    \A p \in Callers :
        (pass[p].pc = "idle" /\ pass'[p].pc # "idle") =>
            IF pass'[p].passed
            THEN lastPruneAtMs' = pass'[p].now
            ELSE lastPruneAtMs' = lastPruneAtMs

\* C25: lastPruneAtMs starts at 0 and changes only when a maybePruneSandboxes
\* call passes the rate-limit check; it is then set to that call's time
\* before any work, whatever the thresholds and whether the pass fails later;
\* a rate-limited call leaves it unchanged. Hence a trigger whose thresholds
\* are both 0, or whose pass fails, still makes every trigger of the next
\* 5 minutes a no-op, also one with enabled thresholds.
C25_StampLifecycle ==
    /\ lastPruneAtMs = 0
    /\ [][StampedByPassingCall /\ FirstStepStampsOrLeaves]_vars
    /\ [](\A p \in Callers : pass[p].passed => lastPruneAtMs >= pass[p].now)
    /\ [](\A p, q \in Callers :
            ( /\ p # q /\ pass[p].passed /\ Called(q)
              /\ ThresholdsBothZero(pass[p].cfg) \/ pass[p].error # "none"
              /\ pass[q].now >= pass[p].now
              /\ pass[q].now - pass[p].now < 5 * 60 * 1000 ) =>
                /\ ~pass[q].passed
                /\ pass[q].pc = "done" /\ pass[q].reads = 0
                /\ NoRuntimeCall(q) /\ pass[q].removed = {})

\* A call whose registry read rejected had stamped lastPruneAtMs; a call with
\* enabled thresholds made one millisecond before the window closed was
\* turned away, and the registry is as it started.
C25_Witness ==
    \E p, q \in Callers :
        /\ p # q /\ pass[p].passed /\ pass[p].error # "none" /\ pass[p].snapshot = <<>>
        /\ lastPruneAtMs = pass[p].now
        /\ Called(q) /\ ~pass[q].passed
        /\ pass[q].cfg.idleHours = 1 /\ pass[q].cfg.maxAgeDays = 1
        /\ pass[q].now - pass[p].now = 5 * 60 * 1000 - 1
        /\ registry = InitialRegistry

\* What a call decides on never changes once taken: its time and thresholds
\* are those of the call, its entries are the registry as the one read found it.
SnapshotTakenOnce ==
    \A p \in Callers :
        /\ Called(p) => (pass'[p].now = pass[p].now /\ pass'[p].cfg = pass[p].cfg)
        /\ pass[p].snapshot # <<>> => pass'[p].snapshot = pass[p].snapshot
        /\ pass'[p].snapshot # pass[p].snapshot => pass'[p].snapshot = registry

\* C26: a prune pass decides on one snapshot: every entry it removes satisfied
\* shouldPrune for the single time taken at the start of the pass and the
\* createdAtMs and lastUsedAtMs returned by the one registry read of the pass;
\* timestamps that other flows write to the registry after that read, such as
\* a refreshed lastUsedAtMs, are not read again before the removal.
C26_PassDecidesOnSnapshot ==
    /\ [](\A p \in Callers :
            /\ pass[p].reads <= 1
            /\ pass[p].removed \subseteq Selected(p)
            /\ {n \in Names : pass[p].rm[n] # "none"} \subseteq Selected(p)
            /\ pass[p].stale \subseteq pass[p].removed)
    /\ [][SnapshotTakenOnce]_vars

\* A pass with only the idle rule enabled read c1 as idle for two hours; c1
\* was then used again, and the pass still removed it from the registry.
C26_Witness ==
    \E p \in Callers :
        /\ pass[p].pc = "done" /\ pass[p].error = "none"
        /\ pass[p].cfg.idleHours = 1 /\ pass[p].cfg.maxAgeDays = 0
        /\ "c1" \in pass[p].stale
        /\ "c1" \in pass[p].removed /\ "c1" \notin RegNames
        /\ pass[p].now - pass[p].snapshot[1].lastUsedAtMs = 2 * 60 * 60 * 1000

----------------------------------------------------------------------------
(* Further properties of the commands (under SpecCommand) *)

\* The removeSandboxContainer call for n has ended, with this success.
Attempted(n, success) ==
    \E i \in 1 .. Len(cmd.attempts) :
        cmd.attempts[i].name = n /\ cmd.attempts[i].success = success

\* C22: removeSandboxContainer(name), as recreate uses it, tolerates runtime
\* failure as pruning does: a failing or raising runtime removal, also of a
\* container that is already gone, is swallowed, the registry entry of name
\* is still removed, and the call fails only when the registry removal fails.
C22_RemoveToleratesRuntimeFailure ==
    \A n \in Names :
        /\ cmd.rm[n] # "none" =>
              \/ cmd.pc = "registry" /\ cmd.idx \in 1 .. Len(cmd.containers)
                    /\ cmd.containers[cmd.idx].containerName = n
              \/ Attempted(n, TRUE) /\ cmd.reg[n] = "ok" /\ n \notin RegNames
              \/ Attempted(n, FALSE) /\ cmd.reg[n] = "rejected" /\ n \in RegNames
        /\ (Attempted(n, TRUE) \/ Attempted(n, FALSE)) => cmd.rm[n] # "none"
        /\ cmd.rm[n] = "ok" => ~docker[n].exists
        /\ cmd.rm[n] \in {"failed", "raised"} => docker[n] = InitialDocker[n]

\* The runtime removal of c1 raised and that of c3, whose container was
\* already gone, failed; both calls succeeded and both entries are out of the
\* registry, while c1 is still in the runtime.
C22_Witness ==
    /\ cmd.rm["c1"] = "raised" /\ cmd.rm["c3"] = "failed"
    /\ ~InitialDocker["c3"].exists
    /\ Attempted("c1", TRUE) /\ Attempted("c3", TRUE)
    /\ "c1" \notin RegNames /\ "c3" \notin RegNames
    /\ docker["c1"].exists

----------------------------------------------------------------------------
(* Further properties of the listing (under SpecList) *)

\* C23: for a registry entry whose container exists, the reconciled image is
\* the image the runtime observed when the inspection succeeds, and the image
\* the registry recorded when the inspection fails or raises; reconciliation
\* never modifies the image stored in the registry.
C23_ObservedImageOrRecordedImage ==
    /\ registry = InitialRegistry
    /\ \A i \in 1 .. Len(list.results) :
          /\ list.snapshot[i] = InitialRegistry[i]
          /\ list.queries[i].exists =>
                /\ list.queries[i].inspect \in {"ok", "failed", "raised"}
                /\ list.queries[i].inspect = "ok" =>
                      list.results[i].image = docker[list.snapshot[i].containerName].image
                /\ list.queries[i].inspect \in {"failed", "raised"} =>
                      list.results[i].image = InitialRegistry[i].image

\* c1 and c2 both exist and run img:2 while the registry records img:1: the
\* inspection of c1 succeeded and its item carries img:2, that of c2 raised
\* and its item carries img:1; the registry still records img:1 for both.
C23_Witness ==
    /\ list.pc = "done" /\ list.result = "returned"
    /\ docker["c1"].image = "img:2" /\ docker["c2"].image = "img:2"
    /\ list.queries[1].inspect = "ok" /\ list.queries[2].inspect = "raised"
    /\ list.results[1].image = "img:2" /\ list.results[2].image = "img:1"
    /\ registry[1].image = "img:1" /\ registry[2].image = "img:1"

\* C24: the listing returns exactly one reconciled item per registry entry
\* read, in the order of the registry read, with containerName, sessionKey,
\* createdAtMs and lastUsedAtMs copied unchanged from the entry.
C24_OneItemPerEntryInReadOrder ==
    /\ Len(list.results) <= Len(list.snapshot)
    /\ (list.pc = "done" /\ list.result = "returned") =>
          /\ list.snapshot = registry
          /\ Len(list.results) = Len(list.snapshot)
          /\ \A i \in 1 .. Len(list.snapshot) :
                /\ list.results[i].containerName = list.snapshot[i].containerName
                /\ list.results[i].sessionKey = list.snapshot[i].sessionKey
                /\ list.results[i].createdAtMs = list.snapshot[i].createdAtMs
                /\ list.results[i].lastUsedAtMs = list.snapshot[i].lastUsedAtMs

\* A listing of c1, c2, c3 returned three items named c1, c2, c3 in that
\* order, although only c2 exists in the runtime.
C24_Witness ==
    /\ list.pc = "done" /\ list.result = "returned"
    /\ ~docker["c1"].exists /\ docker["c2"].exists /\ ~docker["c3"].exists
    /\ Len(list.results) = 3
    /\ list.results[1].containerName = "c1"
    /\ list.results[2].containerName = "c2"
    /\ list.results[3].containerName = "c3"
    /\ list.results[3].lastUsedAtMs = InitialRegistry[3].lastUsedAtMs

----------------------------------------------------------------------------
(* Properties of the operations side by side (under SpecCore) *)

\* A step of the listing leaves the registry and the runtime as they are.
ListingReadsOnly ==
    list' # list => (registry' = registry /\ docker' = docker)

\* No step adds a registry entry or changes one.
RegistryOnlyShrinks ==
    /\ SeqNames(registry') \subseteq SeqNames(registry)
    /\ \A i \in 1 .. Len(registry') :
          \E j \in 1 .. Len(registry) : registry[j] = registry'[i]

\* C27: under any interleaving of list, prune, recreate and ensureRunning,
\* the listing never removes or starts a container and never changes the
\* registry, and no operation ever adds a registry entry: the set of
\* registered names only shrinks, and a name that prune or recreate removed
\* stays unregistered.
C27_ListingReadOnlyRegistryShrinks ==
    /\ [][ListingReadsOnly /\ RegistryOnlyShrinks]_vars
    /\ [](\A n \in Names :
            ((\E p \in Callers : n \in pass[p].removed) \/ cmd.reg[n] = "ok") =>
                n \notin RegNames)
    /\ [](RegNames \subseteq {"c1", "c2"})

\* A recreate is still listing entries it read when c2 was registered, while
\* the prune pass has since removed c2 from the runtime and the registry and
\* ensureDockerContainerIsRunning has started c2 in between.
C27_Witness ==
    /\ cmd.kind = "recreate" /\ cmd.pc = "fetch"
    /\ list.pc \in {"state", "inspect"}
    /\ "c2" \in SeqNames(list.snapshot)
    /\ "c2" \in pass["a"].removed /\ pass["a"].rm["c2"] = "ok"
    /\ RegNames = {"c1"}
    /\ ens.pc = "done" /\ ens.issued = << <<"start", "c2">> >> /\ ens.result = "returned"
    /\ ~docker["c2"].exists

====
